---- MODULE Spec2Model ----
(***************************************************************************)
(* A model of the WebSheet class (src/index.js, lines 52-326): the row     *)
(* store filled by the sheetrock callback, the filter chain, the sort      *)
(* select, the option lists of the bound select controls and the output    *)
(* element.                                                                *)
(*                                                                         *)
(* JavaScript strings are sequences of UTF-16 code units (integers), so    *)
(* that split, trim, toLowerCase, includes, the default Array sort and     *)
(* localeCompare are computed on the characters.  The value undefined is   *)
(* the one-element sequence <<-1>>, which is no string.                    *)
(***************************************************************************)
EXTENDS Integers, Sequences, FiniteSets, TLC

\* ------------------------------------------------------------------------
\* Bounds of the model
\* ------------------------------------------------------------------------

\* the number of filters registered on one WebSheet
MaxFilters == 2

\* the number of fetch() calls made on one WebSheet
MaxFetches == 2

\* ------------------------------------------------------------------------
\* JavaScript values and strings
\* ------------------------------------------------------------------------

\* the value undefined (a property a row does not have, an argument left out)
Undefined == <<-1>>

\* ''
sEmpty == <<>>

\* 'Any', the sentinel option of a bound select (index.js:173, 194, 210, 240)
sAny == <<65, 110, 121>>

\* the string 'undefined', what String(undefined) gives
sUndefined == <<117, 110, 100, 101, 102, 105, 110, 101, 100>>

\* ','
sComma == <<44>>

\* the conversion to a string made by opt.value = o and by '' + v
JsString(v) == IF v = Undefined THEN sUndefined ELSE v

\* white space as String.prototype.trim sees it (within the alphabet used: the
\* ASCII white space characters)
IsWhiteSpace(c) == c \in {9, 10, 11, 12, 13, 32}

RECURSIVE TrimStart(_)
TrimStart(s) ==
  IF s # <<>> /\ IsWhiteSpace(Head(s)) THEN TrimStart(Tail(s)) ELSE s

RECURSIVE TrimEnd(_)
TrimEnd(s) ==
  IF s # <<>> /\ IsWhiteSpace(s[Len(s)])
  THEN TrimEnd(SubSeq(s, 1, Len(s) - 1))
  ELSE s

\* String.prototype.trim
Trim(s) == TrimEnd(TrimStart(s))

\* String.prototype.toLowerCase on one code unit (ASCII letters)
LowerChar(c) == IF c >= 65 /\ c <= 90 THEN c + 32 ELSE c

\* String.prototype.toLowerCase
ToLowerCase(s) == [i \in 1..Len(s) |-> LowerChar(s[i])]

\* s starts with p
StartsWith(s, p) == Len(p) <= Len(s) /\ SubSeq(s, 1, Len(p)) = p

\* String.prototype.includes
Includes(s, p) ==
  \E i \in 0..(Len(s) - Len(p)) : SubSeq(s, i + 1, i + Len(p)) = p

\* String.prototype.split with a string separator: the pieces of s between the
\* occurrences of sep, found left to right; an empty separator splits s into
\* its code units
RECURSIVE SplitFrom(_, _, _)
SplitFrom(s, sep, cur) ==
  IF s = <<>> THEN <<cur>>
  ELSE IF StartsWith(s, sep)
       THEN <<cur>> \o SplitFrom(SubSeq(s, Len(sep) + 1, Len(s)), sep, <<>>)
       ELSE SplitFrom(Tail(s), sep, Append(cur, Head(s)))

Split(s, sep) ==
  IF sep = <<>> THEN [i \in 1..Len(s) |-> <<s[i]>>] ELSE SplitFrom(s, sep, <<>>)

\* the order of the default Array.prototype.sort on strings: code unit by code
\* unit, a proper prefix first
RECURSIVE CodeUnitLess(_, _)
CodeUnitLess(a, b) ==
  IF b = <<>> THEN FALSE
  ELSE IF a = <<>> THEN TRUE
  ELSE IF Head(a) # Head(b) THEN Head(a) < Head(b)
  ELSE CodeUnitLess(Tail(a), Tail(b))

\* the strings of a set in ascending code-unit order
RECURSIVE SortedStrings(_)
SortedStrings(S) ==
  IF S = {} THEN <<>>
  ELSE LET m == CHOOSE x \in S : \A y \in S \ {x} : CodeUnitLess(x, y)
       IN  <<m>> \o SortedStrings(S \ {m})

\* [...options].sort() (index.js:192): Array.prototype.sort with no comparator
\* moves undefined to the end and orders the rest as strings
DefaultSort(S) ==
  SortedStrings(S \ {Undefined})
    \o (IF Undefined \in S THEN <<Undefined>> ELSE <<>>)

\* String.prototype.localeCompare on the alphabet used (blank, comma, ASCII
\* letters): letters compare alphabetically whatever their case, with blank and
\* punctuation before the letters; strings equal up to case are ordered by the
\* first differing letter, lower case first.  The result is -1, 0 or 1.
RECURSIVE CaseCompare(_, _)
CaseCompare(a, b) ==
  IF a = <<>> \/ b = <<>> THEN 0
  ELSE IF Head(a) = Head(b) THEN CaseCompare(Tail(a), Tail(b))
  ELSE IF Head(a) > Head(b) THEN -1 ELSE 1

LocaleCompare(a, b) ==
  LET la == ToLowerCase(a)
      lb == ToLowerCase(b)
  IN  IF la = lb THEN CaseCompare(a, b)
      ELSE IF CodeUnitLess(la, lb) THEN -1 ELSE 1

\* ------------------------------------------------------------------------
\* Rows
\* ------------------------------------------------------------------------

\* the column labels 'n' and 'd' of the sheet
cN == <<110>>
cD == <<100>>

\* options.labels (index.js:45, 121, 140)
Labels == <<cN, cD>>

\* a row object {n: n, d: d}
Row(n, d) == (cN :> n) @@ (cD :> d)

\* row[column]: undefined when the row has no such property
Get(row, column) ==
  IF column \in DOMAIN row THEN row[column] ELSE Undefined

\* the value of an operation that may throw: err is "none" and val the value
\* returned, or err names the error thrown
Ok(v) == [err |-> "none", val |-> v]
Throw(e) == [err |-> e, val |-> <<>>]

\* the rows response.rows.map(r => r.cells) can deliver (index.js:140)
rHeader == Row(cN, cD)
rPartial == Row(cN, <<66>>)
rAlice == Row(<<97>>, <<65, 44, 32, 66>>)
rBob == Row(<<66>>, <<66>>)
rBlank == Row(<<98>>, sEmpty)
rAny == Row(<<65>>, sAny)
rCarl == Row(<<97>>, <<66>>)
rNoDept == (cN :> <<99>>)

\* the responses of the sheet: the cells of response.rows, in order
Responses ==
  { <<>>,
    <<rHeader, rBob, rPartial, rAlice, rBlank>>,
    <<rBob, rNoDept>>,
    <<rAny, rBob, rCarl>> }

\* the errors sheetrock can hand to the callback (index.js:127)
Errors == {"timeout", "denied"}

\* ------------------------------------------------------------------------
\* The controls of the page
\* ------------------------------------------------------------------------

\* the select elements and the text input of the page
SelectIds == {"department", "tags", "sortcol"}
InputIds == {"search"}
ElementIds == SelectIds \cup InputIds

\* a select element: its option values in document order and the index of the
\* selected option (0: none); a text input: its text
SelectElement(options, selected) ==
  [options |-> options, selected |-> selected, text |-> sEmpty]
TextInput(text) == [options |-> <<>>, selected |-> 0, text |-> text]

\* element.value: of a select, the value of the selected option, '' when none
\* is selected; of a text input, its text
Value(els, id) ==
  IF id \in SelectIds
  THEN IF els[id].selected = 0 THEN sEmpty
       ELSE els[id].options[els[id].selected]
  ELSE els[id].text

\* the index of the first option of the list with value v, 0 when there is none
IndexOf(options, v) ==
  IF \E i \in 1..Len(options) : options[i] = v
  THEN CHOOSE i \in 1..Len(options) :
         options[i] = v /\ \A j \in 1..(i - 1) : options[j] # v
  ELSE 0

\* select.value = v: the first option with that value becomes the selected one,
\* and none is selected when no option has it
SetValue(el, v) == [el EXCEPT !.selected = IndexOf(el.options, v)]

\* an append that leaves the selection of the select as it is
AppendOptionUnselected(el, v) == [el EXCEPT !.options = Append(el.options, v)]

\* select.append(option): the option goes to the end of the list, and a select
\* with no option selected selects the first option it is given
AppendOption(el, v) ==
  [el EXCEPT !.options = Append(el.options, v),
             !.selected = IF el.selected = 0 THEN 1 ELSE el.selected]

RECURSIVE AppendOptions(_, _)
AppendOptions(el, vs) ==
  IF vs = <<>> THEN el ELSE AppendOptions(AppendOption(el, Head(vs)), Tail(vs))

\* ------------------------------------------------------------------------
\* The state of a WebSheet
\* ------------------------------------------------------------------------

VARIABLES
  rows,         \* this.rows, once assigned (index.js:140)
  rowsAssigned, \* whether this.rows has been assigned; it is undefined before
  filters,      \* this.filters (index.js:81)
  inputs,       \* this.inputs (index.js:87)
  sorting,      \* this.sorting (index.js:310): set is FALSE while it is undefined
  elements,     \* the controls of the page, by id
  listeners,    \* the controls whose event listener is populateResults
  output,       \* options.output.innerHTML (index.js:225)
  issued,       \* the number of fetch() calls made
  inFlight,     \* the number of sheetrock requests whose callback is to come
  reported,     \* the errors the last call or handler gave this.errorCallback
  thrown,       \* the error the last call or handler ended with, "none" if none
  thisOptions,  \* the options object given to the constructor (this.options)
  initialised,  \* the fields of this the constructor has assigned
  template,     \* this.template (index.js:89-97)
  errorCallback,      \* this.errorCallback (index.js:99)
  sortingComparisons  \* the static property WebSheet.sortingComparisons

\* what no method of a constructed WebSheet assigns
fixed == <<thisOptions, initialised, template, errorCallback, sortingComparisons>>

vars ==
  <<rows, rowsAssigned, filters, inputs, sorting, elements, listeners, output,
    issued, inFlight, reported, thrown, thisOptions, initialised, template,
    errorCallback, sortingComparisons>>

\* a filter function of this.filters: the closure made by selectColumnFilter
\* (element, column, separator), the closure made by searchFilter (element,
\* columns), or a function the page passed to createFilter (fn)
SelectFilter(element, column, separator) ==
  [kind |-> "select", element |-> element, column |-> column,
   separator |-> separator, columns |-> <<>>, fn |-> ""]
SearchFilter(element, columns) ==
  [kind |-> "search", element |-> element, column |-> <<>>,
   separator |-> Undefined, columns |-> columns, fn |-> ""]
PageFilter(fn) ==
  [kind |-> "page", element |-> "", column |-> <<>>,
   separator |-> Undefined, columns |-> <<>>, fn |-> fn]

\* a value that is no function, passed where a filter function is expected
PageValue(v) ==
  [kind |-> "value", element |-> "", column |-> <<>>,
   separator |-> Undefined, columns |-> <<>>, fn |-> v]

\* what the page can pass to createFilter that is no function
NonFunctions == {"undefined", "string"}

\* typeof filterFunction === 'function' (index.js:108)
IsFunction(f) == f.kind # "value"

\* the filter functions the page passes to createFilter: rows => rows.slice(1)
PageFilters == {"dropFirst"}

\* a filter function of the page called on rs
ApplyPageFilter(fn, rs) == IF rs = <<>> THEN <<>> ELSE Tail(rs)

\* the header test of sheetrockCallback: the rows kept by
\* .filter(r => this.options.labels.every(l => l !== r[l]))
HeaderFiltered(cells, labels) ==
  LET Keep(r) == \A i \in 1..Len(labels) : labels[i] # Get(r, labels[i])
  IN  SelectSeq(cells, Keep)

\* the filter of selectColumnFilter applied to rs: element.value 'Any' returns
\* rs; without separator the rows whose column is the selected value; with a
\* separator the rows one of whose trimmed pieces is the selected value, where
\* row[column].split throws a TypeError on a row without the column
ApplySelectFilter(f, rs, els) ==
  LET selectedValue == Value(els, f.element)
      Plain(r) == Get(r, f.column) = selectedValue
      Piece(r) ==
        LET ps == Split(Get(r, f.column), f.separator)
        IN  \E i \in 1..Len(ps) : Trim(ps[i]) = selectedValue
  IN  IF selectedValue = sAny THEN Ok(rs)
      ELSE IF f.separator = Undefined THEN Ok(SelectSeq(rs, Plain))
      ELSE IF \E i \in 1..Len(rs) : Get(rs[i], f.column) = Undefined
           THEN Throw("TypeError")
           ELSE Ok(SelectSeq(rs, Piece))

\* the filter of searchFilter applied to rs: an empty search string returns rs;
\* otherwise the rows one of whose columns, lower-cased, includes the search
\* string.  columns.findIndex looks at the columns in order and stops at the
\* first that matches; r[col].toLowerCase throws a TypeError on a column the
\* row does not have.
ApplySearchFilter(f, rs, els) ==
  LET searchString == ToLowerCase(Trim(Value(els, f.element)))
      Hit(r, i) ==
        /\ Get(r, f.columns[i]) # Undefined
        /\ Includes(ToLowerCase(Get(r, f.columns[i])), searchString)
      Match(r) == \E i \in 1..Len(f.columns) : Hit(r, i)
      Throws(r) ==
        \E i \in 1..Len(f.columns) :
          /\ Get(r, f.columns[i]) = Undefined
          /\ \A j \in 1..(i - 1) : ~Hit(r, j)
  IN  IF searchString = sEmpty THEN Ok(rs)
      ELSE IF \E k \in 1..Len(rs) : Throws(rs[k]) THEN Throw("TypeError")
      ELSE Ok(SelectSeq(rs, Match))

\* one filter function called on rs
ApplyFilter(f, rs, els) ==
  IF f.kind = "select" THEN ApplySelectFilter(f, rs, els)
  ELSE IF f.kind = "search" THEN ApplySearchFilter(f, rs, els)
  ELSE Ok(ApplyPageFilter(f.fn, rs))

\* a loop that calls every filter on this.rows and keeps the last result
FilterLoopUnchained(fs, i, rs, els) ==
  IF i > Len(fs) THEN Ok(rs)
  ELSE IF \E k \in i..Len(fs) : ApplyFilter(fs[k], rs, els).err # "none"
       THEN Throw("TypeError")
       ELSE ApplyFilter(fs[Len(fs)], rs, els)

\* the loop of the filteredRows getter (index.js:152-155) from filter number i
\* on: each filter is called on what the one before it returned
RECURSIVE FilterLoop(_, _, _, _)
FilterLoop(fs, i, rs, els) ==
  IF i > Len(fs) THEN Ok(rs)
  ELSE LET r == ApplyFilter(fs[i], rs, els)
       IN  IF r.err # "none" THEN r ELSE FilterLoop(fs, i + 1, r.val, els)

\* ------------------------------------------------------------------------
\* Sorting
\* ------------------------------------------------------------------------

\* 'Name' and 'Dept', the labels of the sort options
sName == <<78, 97, 109, 101>>
sDept == <<68, 101, 112, 116>>

\* a sort option {label, compare: WebSheet.columnSort(column)}
SortOption(label, column) == [label |-> label, column |-> column]

\* the options the page passes to setSortSelect
PageSortOptions == <<SortOption(sName, cN), SortOption(sDept, cD)>>

\* WebSheet.columnSort(col) called on (a, b) where both have the column, or
\* where only b lacks it: a[col].localeCompare(b[col]), in which an undefined
\* argument is compared as the string 'undefined'
ColumnCompare(col, a, b) ==
  LocaleCompare(Get(a, col), JsString(Get(b, col)))

\* x put into a sequence sorted by columnSort(col), behind the rows that do not
\* compare greater than it
RECURSIVE InsertSorted(_, _, _)
InsertSorted(sorted, x, col) ==
  IF sorted = <<>> THEN <<x>>
  ELSE IF ColumnCompare(col, Head(sorted), x) <= 0
       THEN <<Head(sorted)>> \o InsertSorted(Tail(sorted), x, col)
       ELSE <<x>> \o sorted

\* [...rs].sort(compare) where no comparison throws: Array.prototype.sort is
\* stable, so the result is the one of an insertion sort
RECURSIVE StableSort(_, _)
StableSort(rs, col) ==
  IF rs = <<>> THEN <<>>
  ELSE InsertSorted(StableSort(SubSeq(rs, 1, Len(rs) - 1), col), rs[Len(rs)], col)

\* what [...rs].sort(WebSheet.columnSort(col)) can do.  The comparator throws
\* a TypeError when the first row of a comparison lacks the column.  Which
\* pairs are compared, and in which order, is left to the engine: no comparison
\* is made on fewer than two rows; two rows without the column have to be
\* compared with each other; a single one may be the second row of every
\* comparison, and is then sorted as 'undefined'.
SortOutcomes(rs, col) ==
  LET missing == {i \in 1..Len(rs) : Get(rs[i], col) = Undefined}
  IN  IF Len(rs) <= 1 THEN {Ok(rs)}
      ELSE IF missing = {} THEN {Ok(StableSort(rs, col))}
      ELSE IF Cardinality(missing) >= 2 THEN {Throw("TypeError")}
      ELSE {Throw("TypeError"), Ok(StableSort(rs, col))}

\* this.sorting.options.find(v => v.label === userSort): the index of the
\* first option with that label, 0 when find returns undefined
FindSortOption(options, userSort) ==
  IF \E i \in 1..Len(options) : options[i].label = userSort
  THEN CHOOSE i \in 1..Len(options) :
         options[i].label = userSort
           /\ \A j \in 1..(i - 1) : options[j].label # userSort
  ELSE 0

\* the second half of the filteredRows getter (index.js:157-163) on the rows
\* the filters returned: with no sort select they are returned as they are;
\* otherwise a copy is sorted by the option whose label is the value of the
\* select, and sortFunc.compare throws a TypeError when find found none
SortedOutcomes(rs, srt, els) ==
  IF ~srt.set THEN {Ok(rs)}
  ELSE LET userSort == Value(els, srt.element)
           k == FindSortOption(srt.options, userSort)
       IN  IF k = 0 THEN {Throw("TypeError")}
           ELSE SortOutcomes(rs, srt.options[k].column)

\* the filteredRows getter (index.js:151-164): what it can return or throw.
\* While this.rows is undefined the getter passes undefined through the
\* filters and every path ends in a TypeError: a filter that does not return
\* it as it is calls a method of it, [...undefined] throws, and so does the
\* for-of of populateResults over the undefined it would return.
FilteredRowsOutcomes(rs, assigned, fs, srt, els) ==
  IF ~assigned THEN {Throw("TypeError")}
  ELSE LET f == FilterLoop(fs, 1, rs, els)
       IN  IF f.err # "none" THEN {f} ELSE SortedOutcomes(f.val, srt, els)

\* ------------------------------------------------------------------------
\* populateInputs and populateResults
\* ------------------------------------------------------------------------

\* an entry of this.inputs (index.js:255-259)
BoundInput(column, element, deliminator) ==
  [column |-> column, element |-> element, deliminator |-> deliminator]

\* the selection to restore (index.js:171-174): element.value, or 'Any' when
\* the select has no options
SelectionBackup(el, value) ==
  IF Len(el.options) = 0 THEN sAny ELSE value

\* the Set built by the loop over this.rows (index.js:176-189): the cell of
\* every row when there is no deliminator, else the trimmed pieces of every
\* cell; row[column].split throws a TypeError on a row without the column
OptionSet(rs, column, deliminator) ==
  IF deliminator = Undefined
  THEN Ok({Get(rs[i], column) : i \in 1..Len(rs)})
  ELSE IF \E i \in 1..Len(rs) : Get(rs[i], column) = Undefined
       THEN Throw("TypeError")
       ELSE Ok(UNION { LET ps == Split(Get(rs[i], column), deliminator)
                       IN  {Trim(ps[k]) : k \in 1..Len(ps)}
                       : i \in 1..Len(rs) })

\* optArray (index.js:192-194): the sorted options with 'Any' put in front
OptArray(options) == <<sAny>> \o DefaultSort(options)

\* index.js:197-207: the old options are removed and one option is appended
\* for every entry of optArray, its value the entry as a string
Repopulate(el, optArray) ==
  AppendOptions(SelectElement(<<>>, 0),
                [i \in 1..Len(optArray) |-> JsString(optArray[i])])

\* index.js:209-213: the backed-up selection is restored when an option has it
\* as its value, and 'Any' is selected otherwise
RestoreSelection(el, selectionBackup) ==
  IF IndexOf(el.options, selectionBackup) = 0
  THEN SetValue(el, sAny)
  ELSE SetValue(el, selectionBackup)

\* one turn of the loop of populateInputs, for the entry inp of this.inputs
PopulateInput(inp, rs, els) ==
  LET el == els[inp.element]
      selectionBackup == SelectionBackup(el, Value(els, inp.element))
      options == OptionSet(rs, inp.column, inp.deliminator)
  IN  IF options.err # "none"
      THEN [err |-> options.err, els |-> els]
      ELSE [err |-> "none",
            els |-> [els EXCEPT ![inp.element] =
                      RestoreSelection(Repopulate(el, OptArray(options.val)),
                                       selectionBackup)]]

\* populateInputs (index.js:169-215) from entry number i on: the error it
\* throws, if any, and the controls as it leaves them
RECURSIVE PopulateInputs(_, _, _, _)
PopulateInputs(ins, i, rs, els) ==
  IF i > Len(ins) THEN [err |-> "none", els |-> els]
  ELSE LET r == PopulateInput(ins[i], rs, els)
       IN  IF r.err # "none" THEN r ELSE PopulateInputs(ins, i + 1, rs, r.els)

\* this.template: the function the page gave as options.template,
\* row => row.n + ';'
Template(row) == JsString(Get(row, cN)) \o <<59>>

\* newInner of populateResults (index.js:221-224)
RECURSIVE NewInner(_)
NewInner(rs) ==
  IF rs = <<>> THEN sEmpty ELSE Template(Head(rs)) \o NewInner(Tail(rs))

\* v == null, for a property of the options object (index.js:58-67)
IsNullish(v) == v \in {"undefined", "null"}

\* the array the filters hand back is this.rows itself: every filter is a
\* select filter at 'Any' or a search filter with an empty search string, which
\* return the array they are given (index.js:240-241, 275-276); a filter that
\* selects returns a new array
ReturnsRowStore(fs, els) ==
  \A i \in 1..Len(fs) :
    \/ fs[i].kind = "select" /\ Value(els, fs[i].element) = sAny
    \/ /\ fs[i].kind = "search"
       /\ ToLowerCase(Trim(Value(els, fs[i].element))) = sEmpty

\* a sort made on the array the filters returned, which reorders this.rows when
\* that array is this.rows
RowStoreSortedInPlace(rs, sameArray, r) ==
  IF sameArray /\ r.err = "none" THEN r.val ELSE rs

\* this.rows after [...filteredRows].sort(sortFunc.compare) (index.js:160) has
\* ended as r, where sameArray says that filteredRows is this.rows: the spread
\* makes a new array, and that copy is what sort reorders
RowStoreAfterSort(rs, sameArray, r) == rs

\* populateResults (index.js:220-226): the error it ends with, the content of
\* the output element after it, which an error leaves as it was, and this.rows
\* after it.  this.options.output.innerHTML = newInner throws a TypeError when
\* the options have no output.
PopulateResults(rs, assigned, fs, srt, els, out) ==
  LET sorts ==
        /\ assigned /\ srt.set
        /\ FilterLoop(fs, 1, rs, els).err = "none"
        /\ FindSortOption(srt.options, Value(els, srt.element)) # 0
      Result(r) ==
        [thrown |-> IF r.err # "none" THEN r.err
                    ELSE IF IsNullish(thisOptions.output) THEN "TypeError"
                    ELSE "none",
         output |-> IF r.err # "none" \/ IsNullish(thisOptions.output)
                    THEN out ELSE NewInner(r.val),
         rows |-> IF sorts
                  THEN RowStoreAfterSort(rs, ReturnsRowStore(fs, els), r)
                  ELSE rs]
  IN  {Result(r) : r \in FilteredRowsOutcomes(rs, assigned, fs, srt, els)}

\* ------------------------------------------------------------------------
\* Construction and the operations
\* ------------------------------------------------------------------------

\* what the page binds a select filter to: element, column and separator
SelectBindings ==
  { <<"department", cD, Undefined>>,
    <<"tags", cD, sComma>> }

\* the columns the page lets the search box look at
SearchColumns == { <<cN, cD>> }

\* what the user types into the search box: '' and ' B'
SearchTexts == { sEmpty, <<32, 66>> }

\* the sort select as the page's markup has it: empty, or holding a
\* placeholder option with value ''
SortMarkups == { <<>>, <<sEmpty>> }

NoSorting == [set |-> FALSE, element |-> "", options |-> <<>>]

\* ------------------------------------------------------------------------
\* The constructor
\* ------------------------------------------------------------------------

\* the values the page can give the properties of the options object
\* (webSheetOptions, index.js:39-47): "undefined" is a property left out
SheetValues == {"undefined", "null", "url"}
TemplateValues == {"undefined", "null", "function", "string", "element"}
OutputValues == {"undefined", "element"}
QueryValues == {"undefined", "null", "select"}
LabelsValues == {"undefined", "null", "labels"}
ErrorCallbackValues == {"undefined", "function"}

\* the options objects of the page
OptionsObjects ==
  [sheet : SheetValues, template : TemplateValues, output : OutputValues,
   query : QueryValues, labels : LabelsValues,
   errorCallback : ErrorCallbackValues]

\* the options of the README's examples: every property given, the template a
\* function
PageOptions ==
  [sheet |-> "url", template |-> "function", output |-> "element",
   query |-> "select", labels |-> "labels", errorCallback |-> "function"]

\* the messages of the errors the constructor throws (index.js:59-68)
ErrSheet == "WebSheet: Provide a Google Sheet URL"
ErrTemplate == "WebSheet: Provide a Handlebars template"
ErrQuery == "WebSheet: Provide a query"
ErrLabels == "WebSheet: Provide a list of labels for your selected rows"

\* the fields of this the constructor assigns (index.js:75, 81, 87, 89-97, 99)
Fields == {"options", "filters", "inputs", "template", "errorCallback"}

\* a constructor that looks at the template before the sheet
ConstructorTemplateFirst(opts) ==
  IF IsNullish(opts.template) \/ IsNullish(opts.sheet)
     \/ IsNullish(opts.query) \/ IsNullish(opts.labels)
  THEN [err |-> IF IsNullish(opts.template) THEN ErrTemplate
                ELSE IF IsNullish(opts.sheet) THEN ErrSheet
                ELSE IF IsNullish(opts.query) THEN ErrQuery
                ELSE ErrLabels,
        initialised |-> {}, template |-> "undefined",
        errorCallback |-> "undefined"]
  ELSE [err |-> "none", initialised |-> Fields,
        template |-> IF opts.template = "function" THEN "function"
                     ELSE "compiled",
        errorCallback |-> IF opts.errorCallback = "undefined"
                          THEN "console.error" ELSE "function"]

\* new WebSheet(opts) (index.js:57-100): the error thrown, or the fields as
\* the constructor leaves them.  The four checks come first, sheet, template,
\* query, labels in this order; options.output is not looked at.  A template
\* that is no function is compiled by Handlebars, and console.error stands in
\* for an errorCallback that is not given.
Constructor(opts) ==
  IF IsNullish(opts.sheet) THEN
    [err |-> ErrSheet, initialised |-> {}, template |-> "undefined",
     errorCallback |-> "undefined"]
  ELSE IF IsNullish(opts.template) THEN
    [err |-> ErrTemplate, initialised |-> {}, template |-> "undefined",
     errorCallback |-> "undefined"]
  ELSE IF IsNullish(opts.query) THEN
    [err |-> ErrQuery, initialised |-> {}, template |-> "undefined",
     errorCallback |-> "undefined"]
  ELSE IF IsNullish(opts.labels) THEN
    [err |-> ErrLabels, initialised |-> {}, template |-> "undefined",
     errorCallback |-> "undefined"]
  ELSE
    [err |-> "none", initialised |-> Fields,
     template |-> IF opts.template = "function" THEN "function"
                  ELSE "compiled",
     errorCallback |-> IF opts.errorCallback = "undefined"
                       THEN "console.error" ELSE "function"]

\* the controls no registration has used yet
Bound == {filters[i].element : i \in 1..Len(filters)}
           \cup (IF sorting.set THEN {sorting.element} ELSE {})

\* the state after new WebSheet(options) with all required options given
\* (index.js:57-100), on a page whose controls no script has touched
Init ==
  /\ rows = <<>>
  /\ rowsAssigned = FALSE
  /\ filters = <<>>
  /\ inputs = <<>>
  /\ sorting = NoSorting
  /\ \E m \in SortMarkups :
       elements = [id \in ElementIds |->
                     IF id \in InputIds THEN TextInput(sEmpty)
                     ELSE IF id = "sortcol"
                          THEN AppendOptions(SelectElement(<<>>, 0), m)
                          ELSE SelectElement(<<>>, 0)]
  /\ listeners = {}
  /\ output = sEmpty
  /\ issued = 0
  /\ inFlight = 0
  /\ reported = <<>>
  /\ thrown = "none"
  /\ thisOptions = PageOptions
  /\ initialised = Constructor(PageOptions).initialised
  /\ template = Constructor(PageOptions).template
  /\ errorCallback = Constructor(PageOptions).errorCallback
  /\ sortingComparisons = Undefined

\* the message of the error createFilter throws (index.js:109)
ErrFilter == "WebSheet(addSearchFilter): Provide a valid HTML text input"

\* a createFilter that pushes before it checks
CreateFilterPushFirst(fs, filterFunction) ==
  [err |-> IF IsFunction(filterFunction) THEN "none" ELSE ErrFilter,
   filters |-> Append(fs, filterFunction)]

\* createFilter(filterFunction) (index.js:107-113) on the filter list fs: the
\* error it throws and this.filters after it
CreateFilter(fs, filterFunction) ==
  IF ~IsFunction(filterFunction)
  THEN [err |-> ErrFilter, filters |-> fs]
  ELSE [err |-> "none", filters |-> Append(fs, filterFunction)]

\* sheet.createFilter(v) with a value that is no function
CreateFilterInvalid(v) ==
  /\ Len(filters) <= MaxFilters
  /\ filters' = CreateFilter(filters, PageValue(v)).filters
  /\ thrown' = CreateFilter(filters, PageValue(v)).err
  /\ reported' = <<>>
  /\ UNCHANGED <<rows, rowsAssigned, inputs, sorting, elements, listeners,
                 output, issued, inFlight>>
  /\ UNCHANGED fixed

\* sheet.createFilter(fn) with a function of the page
CreatePageFilter(fn) ==
  /\ Len(filters) < MaxFilters
  /\ filters' = CreateFilter(filters, PageFilter(fn)).filters
  /\ thrown' = CreateFilter(filters, PageFilter(fn)).err
  /\ reported' = <<>>
  /\ UNCHANGED <<rows, rowsAssigned, inputs, sorting, elements, listeners,
                 output, issued, inFlight>>
  /\ UNCHANGED fixed

\* sheet.selectColumnFilter(element, column, separator) (index.js:235-262)
SelectColumnFilter(element, column, separator) ==
  /\ Len(filters) < MaxFilters
  /\ element \notin Bound
  /\ listeners' = listeners \cup {element}
  /\ filters' =
       CreateFilter(filters, SelectFilter(element, column, separator)).filters
  /\ inputs' = Append(inputs, BoundInput(column, element, separator))
  /\ thrown' =
       CreateFilter(filters, SelectFilter(element, column, separator)).err
  /\ reported' = <<>>
  /\ UNCHANGED <<rows, rowsAssigned, sorting, elements, output, issued,
                 inFlight>>
  /\ UNCHANGED fixed

\* sheet.searchFilter(element, columns) (index.js:269-288)
SearchFilterCall(element, columns) ==
  /\ Len(filters) < MaxFilters
  /\ element \notin Bound
  /\ listeners' = listeners \cup {element}
  /\ filters' = CreateFilter(filters, SearchFilter(element, columns)).filters
  /\ thrown' = CreateFilter(filters, SearchFilter(element, columns)).err
  /\ reported' = <<>>
  /\ UNCHANGED <<rows, rowsAssigned, inputs, sorting, elements, output,
                 issued, inFlight>>
  /\ UNCHANGED fixed

\* sheet.setSortSelect(element, options) (index.js:296-316)
SetSortSelect(element, options) ==
  /\ ~sorting.set
  /\ element \notin Bound
  /\ listeners' = listeners \cup {element}
  /\ elements' = [elements EXCEPT ![element] =
                    AppendOptions(@, [i \in 1..Len(options) |-> options[i].label])]
  /\ sorting' = [set |-> TRUE, element |-> element, options |-> options]
  /\ thrown' = "none"
  /\ reported' = <<>>
  /\ UNCHANGED <<rows, rowsAssigned, filters, inputs, output, issued,
                 inFlight>>
  /\ UNCHANGED fixed

\* sheet.fetch() (index.js:115-125): a request is handed to sheetrock
Fetch ==
  /\ issued < MaxFetches
  /\ issued' = issued + 1
  /\ inFlight' = inFlight + 1
  /\ thrown' = "none"
  /\ reported' = <<>>
  /\ UNCHANGED <<rows, rowsAssigned, filters, inputs, sorting, elements,
                 listeners, output>>
  /\ UNCHANGED fixed

\* an error branch that also empties the row store and the output
CallbackErrorReset(err) ==
  /\ inFlight > 0
  /\ inFlight' = inFlight - 1
  /\ reported' = <<err>>
  /\ thrown' = "none"
  /\ rows' = <<>>
  /\ output' = sEmpty
  /\ UNCHANGED <<rowsAssigned, filters, inputs, sorting, elements, listeners,
                 issued>>
  /\ UNCHANGED fixed

\* sheetrockCallback(err, ...) with an error (index.js:128-131)
CallbackError(err) ==
  /\ inFlight > 0
  /\ inFlight' = inFlight - 1
  /\ reported' = <<err>>
  /\ thrown' = "none"
  /\ UNCHANGED <<rows, rowsAssigned, filters, inputs, sorting, elements,
                 listeners, output, issued>>
  /\ UNCHANGED fixed

\* an assignment that adds the new rows to the ones already held
LoadedRowsMerged(cells) == rows \o HeaderFiltered(cells, Labels)

\* the array assigned to this.rows (index.js:140)
LoadedRows(cells) == HeaderFiltered(cells, Labels)

\* a callback that renders before it rebuilds the options
CallbackOkRenderFirst(cells) ==
  /\ inFlight > 0
  /\ inFlight' = inFlight - 1
  /\ reported' = <<>>
  /\ rowsAssigned' = TRUE
  /\ LET loaded == LoadedRows(cells)
     IN  \E r \in PopulateResults(loaded, TRUE, filters, sorting, elements,
                                  output) :
           /\ output' = r.output
           /\ rows' = r.rows
           /\ IF r.thrown # "none"
              THEN thrown' = r.thrown /\ elements' = elements
              ELSE LET p == PopulateInputs(inputs, 1, loaded, elements)
                   IN  thrown' = p.err /\ elements' = p.els
  /\ UNCHANGED <<filters, inputs, sorting, listeners, issued>>
  /\ UNCHANGED fixed

\* sheetrockCallback(null, options, response) (index.js:140-144), where cells
\* are the cells of response.rows: this.rows is assigned, then populateInputs
\* runs, then populateResults, unless one of them throws
CallbackOk(cells) ==
  /\ inFlight > 0
  /\ inFlight' = inFlight - 1
  /\ reported' = <<>>
  /\ rowsAssigned' = TRUE
  /\ LET loaded == LoadedRows(cells)
         p == PopulateInputs(inputs, 1, loaded, elements)
     IN  /\ elements' = p.els
         /\ IF p.err # "none"
            THEN thrown' = p.err /\ output' = output /\ rows' = loaded
            ELSE \E r \in PopulateResults(loaded, TRUE, filters, sorting,
                                          p.els, output) :
                   thrown' = r.thrown /\ output' = r.output /\ rows' = r.rows
  /\ UNCHANGED <<filters, inputs, sorting, listeners, issued>>
  /\ UNCHANGED fixed

\* a listener that runs populateInputs before it renders
UserSelectResync(element, i) ==
  /\ element \in listeners \cap SelectIds
  /\ i \in 1..Len(elements[element].options)
  /\ i # elements[element].selected
  /\ LET picked == [elements EXCEPT ![element].selected = i]
         p == PopulateInputs(inputs, 1, rows, picked)
     IN  /\ elements' = p.els
         /\ \E r \in PopulateResults(rows, rowsAssigned, filters, sorting,
                                     p.els, output) :
              thrown' = r.thrown /\ output' = r.output /\ rows' = r.rows
  /\ reported' = <<>>
  /\ UNCHANGED <<rowsAssigned, filters, inputs, sorting, listeners,
                 issued, inFlight>>
  /\ UNCHANGED fixed

\* the user picks option number i of a select that has the listener: its
\* change and input events run populateResults (index.js:237, 297)
UserSelect(element, i) ==
  /\ element \in listeners \cap SelectIds
  /\ i \in 1..Len(elements[element].options)
  /\ i # elements[element].selected
  /\ elements' = [elements EXCEPT ![element].selected = i]
  /\ \E r \in PopulateResults(rows, rowsAssigned, filters, sorting,
                              elements', output) :
       thrown' = r.thrown /\ output' = r.output /\ rows' = r.rows
  /\ reported' = <<>>
  /\ UNCHANGED <<rowsAssigned, filters, inputs, sorting, listeners,
                 issued, inFlight>>
  /\ UNCHANGED fixed

\* the user changes the text of the search box to text: its input event runs
\* populateResults (index.js:270)
UserType(element, text) ==
  /\ element \in listeners \cap InputIds
  /\ text # elements[element].text
  /\ elements' = [elements EXCEPT ![element].text = text]
  /\ \E r \in PopulateResults(rows, rowsAssigned, filters, sorting,
                              elements', output) :
       thrown' = r.thrown /\ output' = r.output /\ rows' = r.rows
  /\ reported' = <<>>
  /\ UNCHANGED <<rowsAssigned, filters, inputs, sorting, listeners,
                 issued, inFlight>>
  /\ UNCHANGED fixed

Next ==
  \/ \E v \in NonFunctions : CreateFilterInvalid(v)
  \/ \E fn \in PageFilters : CreatePageFilter(fn)
  \/ \E b \in SelectBindings : SelectColumnFilter(b[1], b[2], b[3])
  \/ \E cs \in SearchColumns : SearchFilterCall("search", cs)
  \/ SetSortSelect("sortcol", PageSortOptions)
  \/ Fetch
  \/ \E err \in Errors : CallbackError(err)
  \/ \E cells \in Responses : CallbackOk(cells)
  \/ \E e \in SelectIds :
       \E i \in 1..Len(elements[e].options) : UserSelect(e, i)
  \/ \E t \in SearchTexts : UserType("search", t)

Spec == Init /\ [][Next]_vars

\* ------------------------------------------------------------------------
\* Construction with any options
\* ------------------------------------------------------------------------

\* the page before it calls new WebSheet(thisOptions): no field of the object
\* is assigned yet, and the options are any the page can write
InitConstruct ==
  /\ thisOptions \in OptionsObjects
  /\ initialised = {}
  /\ template = "undefined"
  /\ errorCallback = "undefined"
  /\ sortingComparisons = Undefined
  /\ rows = <<>>
  /\ rowsAssigned = FALSE
  /\ filters = <<>>
  /\ inputs = <<>>
  /\ sorting = NoSorting
  /\ elements = [id \in ElementIds |->
                   IF id \in InputIds THEN TextInput(sEmpty)
                   ELSE SelectElement(<<>>, 0)]
  /\ listeners = {}
  /\ output = sEmpty
  /\ issued = 0
  /\ inFlight = 0
  /\ reported = <<>>
  /\ thrown = "none"

\* new WebSheet(thisOptions) (index.js:57-100)
Construct ==
  /\ initialised = {}
  /\ thrown = "none"
  /\ thrown' = Constructor(thisOptions).err
  /\ initialised' = Constructor(thisOptions).initialised
  /\ template' = Constructor(thisOptions).template
  /\ errorCallback' = Constructor(thisOptions).errorCallback
  /\ filters' = <<>>
  /\ inputs' = <<>>
  /\ UNCHANGED <<thisOptions, sortingComparisons, rows, rowsAssigned, sorting,
                 elements, listeners, output, issued, inFlight, reported>>

\* the constructor has returned: there is a WebSheet to call methods of
Constructed == initialised = Fields

\* construction, and on the sheet constructed fetch() and the callbacks
NextConstruct ==
  \/ Construct
  \/ Constructed /\ Fetch
  \/ Constructed /\ \E err \in Errors : CallbackError(err)
  \/ Constructed /\ \E cells \in Responses : CallbackOk(cells)

SpecConstruct == InitConstruct /\ [][NextConstruct]_vars

\* ------------------------------------------------------------------------
\* The static array of the README
\* ------------------------------------------------------------------------

\* the arrays of comparison functions the page assigns to
\* WebSheet.sortingComparisons: the number i stands for the function
\* WebSheet.columnSort(Labels[i])
PageComparisons == { <<1>> }

\* WebSheet.sortingComparisons = cmps, written by the page as the README tells
\* it to (part_000:100-101).  The class declares no such property and no line
\* of index.js reads it.
PlaceSortingComparisons(cmps) ==
  /\ sortingComparisons = Undefined
  /\ sortingComparisons' = cmps
  /\ thrown' = "none"
  /\ reported' = <<>>
  /\ UNCHANGED <<rows, rowsAssigned, filters, inputs, sorting, elements,
                 listeners, output, issued, inFlight, thisOptions, initialised,
                 template, errorCallback>>

\* the operations of a sheet on a page that also uses the static array
NextReadme ==
  \/ Next
  \/ \E cmps \in PageComparisons : PlaceSortingComparisons(cmps)

SpecReadme == Init /\ [][NextReadme]_vars

\* ------------------------------------------------------------------------
\* Properties
\* ------------------------------------------------------------------------

\* the successful fetch callback, whatever the response
IsCallbackOk == \E cells \in Responses : CallbackOk(cells)

\* a change or input event of a control
IsControlEvent ==
  \/ \E e \in SelectIds :
       \E i \in 1..Len(elements[e].options) : UserSelect(e, i)
  \/ \E t \in SearchTexts : UserType("search", t)

\* the value the sort select has is the label of no sort option
SortLabelMissing ==
  sorting.set
    /\ FindSortOption(sorting.options, Value(elements, sorting.element)) = 0

\* the left fold of the first n filters of fs over rs: the n-th filter applied
\* to the fold of the n - 1 before it
RECURSIVE LeftFold(_, _, _, _)
LeftFold(fs, n, rs, els) ==
  IF n = 0 THEN Ok(rs)
  ELSE LET prev == LeftFold(fs, n - 1, rs, els)
       IN  IF prev.err # "none" THEN prev ELSE ApplyFilter(fs[n], prev.val, els)

Reverse(fs) == [i \in 1..Len(fs) |-> fs[Len(fs) + 1 - i]]

\* C1: the rows the filteredRows getter has before it sorts are the left fold
\* of the registered filters over the row store, each filter receiving the
\* output of the one registered before it; and createFilter,
\* selectColumnFilter and searchFilter each put their filter at the end of the
\* chain, leaving the filters registered before in place.
C1FilterChainIsLeftFold ==
  /\ [](rowsAssigned =>
          FilterLoop(filters, 1, rows, elements)
            = LeftFold(filters, Len(filters), rows, elements))
  /\ [][/\ \A fn \in PageFilters :
             CreatePageFilter(fn) => filters' = Append(filters, PageFilter(fn))
        /\ \A b \in SelectBindings :
             SelectColumnFilter(b[1], b[2], b[3])
               => filters' = Append(filters, SelectFilter(b[1], b[2], b[3]))
        /\ \A cs \in SearchColumns :
             SearchFilterCall("search", cs)
               => filters' = Append(filters, SearchFilter("search", cs))]_vars

\* two filters are registered, they return without error, and they would
\* return other rows if they were applied in the other order
C1Witness ==
  /\ rowsAssigned
  /\ Len(filters) = 2
  /\ FilterLoop(filters, 1, rows, elements).err = "none"
  /\ FilterLoop(filters, 1, rows, elements).val # rows
  /\ FilterLoop(filters, 1, rows, elements)
       # FilterLoop(Reverse(filters), 1, rows, elements)

\* C2: when a sort select is registered and its value is the label of no sort
\* option, the filteredRows getter raises no error and returns the rows the
\* filters returned, in their order.
C2MissingSortLabelReturnsUnsorted ==
  (rowsAssigned /\ SortLabelMissing
     /\ FilterLoop(filters, 1, rows, elements).err = "none")
  => FilteredRowsOutcomes(rows, rowsAssigned, filters, sorting, elements)
       = {Ok(FilterLoop(filters, 1, rows, elements).val)}

\* the rows of a response that are not the echo of the label schema: those in
\* which some label's value is not the label
NotHeaderEcho(cells, labels) ==
  LET Echo(r) == \A i \in 1..Len(labels) : Get(r, labels[i]) = labels[i]
      Kept(r) == ~Echo(r)
  IN  SelectSeq(cells, Kept)

\* C3: a successful fetch callback drops a row from the row store if and only
\* if every label's value in the row is the label itself; a row in which only
\* some labels equal their value is kept.
C3DropsOnlyFullHeaderEcho ==
  [][\A cells \in Responses :
       CallbackOk(cells) => rows' = NotHeaderEcho(cells, Labels)]_vars

\* C4: a fetch callback with an error calls the error handler once, with that
\* error, throws nothing, and leaves the row store, the controls (option lists
\* and selections) and the output as they were.
C4ErrorCallbackOnlyReports ==
  [][\A err \in Errors :
       CallbackError(err)
         => /\ reported' = <<err>>
            /\ thrown' = "none"
            /\ UNCHANGED <<rows, rowsAssigned, elements, output>>]_vars

\* an error callback has just run on a sheet that holds rows and has rendered
C4Witness ==
  /\ reported # <<>>
  /\ rowsAssigned /\ rows # <<>>
  /\ output # sEmpty
  /\ inputs # <<>>

\* C5: a successful fetch callback makes the row store the header-filtered
\* rows of its own response, whatever the store held and whatever callbacks
\* fired before; no other step changes the row store.
C5LastCallbackReplacesRows ==
  [][/\ \A cells \in Responses :
          CallbackOk(cells)
            => rowsAssigned' /\ rows' = HeaderFiltered(cells, Labels)
     /\ ~IsCallbackOk => UNCHANGED <<rows, rowsAssigned>>]_vars

\* a second successful callback has replaced the rows of the first: the tags
\* select still has the options the first one built, because populateInputs
\* threw in the second before rebuilding them
C5Witness ==
  /\ inFlight = 0
  /\ rowsAssigned
  /\ rows = <<rBob, rNoDept>>
  /\ Len(elements["tags"].options) > 1

\* C6: a row that lacks a column used by a select-column filter, a search
\* filter, populateInputs or a columnSort comparator is treated as having a
\* blank value there: no handler raises an error over it.
C6MissingColumnRaisesNothing ==
  (/\ rowsAssigned
   /\ ~SortLabelMissing
   /\ \E i \in 1..Len(rows) : cD \notin DOMAIN rows[i])
  => thrown # "TypeError"

\* the concatenation of the template over rs, in order
RECURSIVE Concatenation(_)
Concatenation(rs) ==
  IF rs = <<>> THEN sEmpty
  ELSE Concatenation(SubSeq(rs, 1, Len(rs) - 1)) \o Template(rs[Len(rs)])

\* what sort(filter(row store)) can be: the sorted left fold of the filters
SortedFiltered(rs, fs, srt, els) ==
  LET f == LeftFold(fs, Len(fs), rs, els)
  IN  IF f.err # "none" THEN {}
      ELSE {s.val : s \in {x \in SortedOutcomes(f.val, srt, els) : x.err = "none"}}

\* every select filter is at 'Any', every search box is empty, there is no
\* page filter and no sort select
AllPassThrough(fs, srt, els) ==
  /\ ~srt.set
  /\ \A i \in 1..Len(fs) :
       \/ fs[i].kind = "select" /\ Value(els, fs[i].element) = sAny
       \/ fs[i].kind = "search" /\ Trim(Value(els, fs[i].element)) = sEmpty

\* a step in which populateResults runs on an assigned row store: a control
\* event, or a successful callback whose populateInputs has returned
IsRender ==
  \/ rowsAssigned /\ IsControlEvent
  \/ IsCallbackOk /\ PopulateInputs(inputs, 1, rows', elements).err = "none"

\* the output after a render, as C7 has it
RenderedAsClaimed ==
  /\ output' \in { Concatenation(rs) :
                     rs \in SortedFiltered(rows', filters', sorting', elements') }
  /\ AllPassThrough(filters', sorting', elements') => output' = Concatenation(rows')

\* C7: every render replaces the whole content of the output element with the
\* concatenation, in order, of the template over sort(filter(row store)); with
\* all select filters at 'Any', all search boxes empty and no sort select this
\* is the concatenation over all rows in row-store order.
C7EveryRenderReplacesOutput ==
  [][IsRender => thrown' = "none" /\ RenderedAsClaimed]_vars

\* C7 holds of the renders that end without an error
C7CompletedRenderReplacesOutput ==
  [][(IsRender /\ thrown' = "none") => RenderedAsClaimed]_vars

\* the value a row has in a column, blank when it lacks the column
Cell(row, column) == IF column \in DOMAIN row THEN row[column] ELSE sEmpty

\* the distinct values of a column over rs: whole cells without a delimiter,
\* else the trimmed segments of the cells
ColumnValues(rs, column, delimiter) ==
  IF delimiter = Undefined
  THEN {Cell(rs[i], column) : i \in 1..Len(rs)}
  ELSE UNION { LET ps == Split(Cell(rs[i], column), delimiter)
               IN  {Trim(ps[k]) : k \in 1..Len(ps)}
               : i \in 1..Len(rs) }

NoDuplicates(seq) ==
  \A i, j \in 1..Len(seq) : seq[i] = seq[j] => i = j

\* the option list of the control of bound input inp is as C8 has it for rs
OptionsAsClaimed(inp, rs, els) ==
  /\ els[inp.element].options
       = <<sAny>> \o SortedStrings(ColumnValues(rs, inp.column, inp.deliminator))
  /\ NoDuplicates(els[inp.element].options)

\* C8: after every successful data refresh the option list of each bound
\* select is 'Any' followed by the distinct values of its column over the
\* current row store in ascending string order, nothing left over from an
\* earlier refresh and no value listed twice, for every bound input.
C8OptionsAreAnyThenDistinctValues ==
  [][IsCallbackOk =>
       \A k \in 1..Len(inputs) : OptionsAsClaimed(inputs[k], rows', elements')]_vars

\* the selection of the control of bound input inp after a refresh is as C9
\* has it
SelectionAsClaimed(inp) ==
  LET before == Value(elements, inp.element)
      after == Value(elements', inp.element)
      rebuilt == elements'[inp.element].options
  IN  IF Len(elements[inp.element].options) = 0 THEN after = sAny
      ELSE IF \E i \in 1..Len(rebuilt) : rebuilt[i] = before
           THEN after = before
           ELSE after = sAny

\* C9: across a data refresh a bound select keeps its selection if the value
\* selected before is among the rebuilt options and is set to 'Any' otherwise;
\* a control that had no options before the refresh is at 'Any' after it.
C9SelectionReconciled ==
  [][IsCallbackOk => \A k \in 1..Len(inputs) : SelectionAsClaimed(inputs[k])]_vars

\* C9 holds of the refreshes in which populateInputs returns
C9SelectionReconciledWhenCompleted ==
  [][(IsCallbackOk /\ PopulateInputs(inputs, 1, rows', elements).err = "none")
       => \A k \in 1..Len(inputs) : SelectionAsClaimed(inputs[k])]_vars

\* C10: a change or input event of a select filter control, the search box or
\* the sort select only renders: beyond the value the user gave the control,
\* it changes the output and nothing else; the option list of a bound control
\* changes in a successful fetch callback only.
C10EventsOnlyRender ==
  [][/\ \A e \in SelectIds :
        \A i \in 1..Len(elements[e].options) :
          UserSelect(e, i)
            => /\ elements' = [elements EXCEPT ![e].selected = i]
               /\ UNCHANGED <<rows, rowsAssigned, filters, inputs, sorting,
                              listeners, issued, inFlight>>
     /\ \A t \in SearchTexts :
          UserType("search", t)
            => /\ elements' = [elements EXCEPT !["search"].text = t]
               /\ UNCHANGED <<rows, rowsAssigned, filters, inputs, sorting,
                              listeners, issued, inFlight>>
     /\ \A k \in 1..Len(inputs) :
          elements'[inputs[k].element].options
              # elements[inputs[k].element].options
            => IsCallbackOk]_vars

\* the user has picked a value in a bound select and the output shows the
\* rows it keeps, not all rows
C10Witness ==
  /\ rowsAssigned
  /\ thrown = "none"
  /\ \E k \in 1..Len(inputs) : elements[inputs[k].element].selected > 1
  /\ output # NewInner(rows)
  /\ output \in { Concatenation(rs) :
                    rs \in SortedFiltered(rows, filters, sorting, elements) }

\* C11: the row store is changed by a successful fetch callback only, and what
\* it holds is the header-filtered rows of a response in the order of the
\* response: filtering, sorting, the rebuilding of the options and rendering
\* leave its content and its order alone, also when the filters hand the row
\* store itself to the sort.
C11RowStoreChangedByCallbackOnly ==
  /\ [][(rows' # rows \/ rowsAssigned' # rowsAssigned) => IsCallbackOk]_vars
  /\ [](rowsAssigned =>
          \E cells \in Responses : rows = HeaderFiltered(cells, Labels))

\* a render has sorted the rows while every registered filter returned the row
\* store itself, and the output shows them in another order than the store's
C11Witness ==
  /\ rowsAssigned
  /\ thrown = "none"
  /\ Len(filters) > 0
  /\ ReturnsRowStore(filters, elements)
  /\ sorting.set /\ ~SortLabelMissing
  /\ output # NewInner(rows)
  /\ output \in { Concatenation(rs) :
                    rs \in SortedFiltered(rows, filters, sorting, elements) }

\* C12: createFilter called with a value that is no function throws its error
\* in that call and leaves the filter chain as it was, and with it the row
\* store, the controls and the output; the chain never holds anything but
\* the functions registered, so that later renders apply those only.
C12InvalidFilterRejectedAtCall ==
  /\ [][\A v \in NonFunctions :
          CreateFilterInvalid(v)
            => /\ thrown' = ErrFilter
               /\ filters' = filters
               /\ UNCHANGED <<rows, rowsAssigned, inputs, elements, output>>]_vars
  /\ [](\A i \in 1..Len(filters) : IsFunction(filters[i]))

\* createFilter has just thrown on a sheet with two filters registered and
\* rows rendered
C12Witness ==
  /\ thrown = ErrFilter
  /\ Len(filters) = MaxFilters
  /\ rowsAssigned
  /\ output # sEmpty

\* the first of sheet, template, query, labels the options lack, as the error
\* that names it
FirstMissing(o) ==
  IF IsNullish(o.sheet) THEN ErrSheet
  ELSE IF IsNullish(o.template) THEN ErrTemplate
  ELSE IF IsNullish(o.query) THEN ErrQuery
  ELSE IF IsNullish(o.labels) THEN ErrLabels
  ELSE "none"

\* C13: new WebSheet(options) with sheet, template, query or labels absent
\* throws at once the error of the first absent one in the order sheet,
\* template, query, labels, and assigns no field: no filters, no inputs, no
\* template.
C13MissingOptionFailsConstruction ==
  [][(Construct /\ FirstMissing(thisOptions) # "none")
       => /\ thrown' = FirstMissing(thisOptions)
          /\ initialised' = {}
          /\ template' = "undefined"]_vars

\* construction has failed on options that lack the template and the query:
\* the error is the template's
C13Witness ==
  /\ thrown = ErrTemplate
  /\ IsNullish(thisOptions.query)
  /\ initialised = {}

\* C14: new WebSheet(options) with no output throws a configuration error at
\* construction.
C14MissingOutputFailsConstruction ==
  [][(Construct /\ IsNullish(thisOptions.output))
       => thrown' # "none" /\ initialised' = {}]_vars

\* a sheet constructed without output fails when it renders
C14FailsAtRender ==
  /\ Constructed
  /\ IsNullish(thisOptions.output)
  /\ rowsAssigned
  /\ thrown = "TypeError"

\* every row of rs has the column
HasColumn(rs, column) == \A i \in 1..Len(rs) : column \in DOMAIN rs[i]

\* the rows of rs a select-column filter keeps, as C15 has it: all of them at
\* 'Any'; else the rows whose column value is the control's value, or, with a
\* delimiter, one of whose trimmed segments is
SelectKeeps(f, rs, els) ==
  LET v == Value(els, f.element)
      Segments(r) == Split(Cell(r, f.column), f.separator)
      Keep(r) ==
        IF f.separator = Undefined THEN Cell(r, f.column) = v
        ELSE \E k \in 1..Len(Segments(r)) : Trim(Segments(r)[k]) = v
  IN  IF v = sAny THEN rs ELSE SelectSeq(rs, Keep)

\* C15: the filter registered by selectColumnFilter returns all rows when the
\* control is at 'Any'; otherwise it returns, in their order, exactly the rows
\* whose column value equals the control's value or, with a delimiter, has a
\* trimmed segment that equals it.
C15SelectFilterKeepsMatchingRows ==
  rowsAssigned =>
    \A i \in 1..Len(filters) :
      filters[i].kind = "select"
        => ApplyFilter(filters[i], rows, elements)
             = Ok(SelectKeeps(filters[i], rows, elements))

\* C15 holds where every row has the column of the filter
C15SelectFilterOnCompleteRows ==
  rowsAssigned =>
    \A i \in 1..Len(filters) :
      (filters[i].kind = "select" /\ HasColumn(rows, filters[i].column))
        => ApplyFilter(filters[i], rows, elements)
             = Ok(SelectKeeps(filters[i], rows, elements))

\* the rows of rs a search filter keeps, as C16 has it
SearchKeeps(f, rs, els) ==
  LET needle == ToLowerCase(Trim(Value(els, f.element)))
      Keep(r) ==
        \E k \in 1..Len(f.columns) :
          Includes(ToLowerCase(Cell(r, f.columns[k])), needle)
  IN  IF Trim(Value(els, f.element)) = sEmpty THEN rs ELSE SelectSeq(rs, Keep)

\* C16: the filter registered by searchFilter returns all rows when the
\* control's value is empty after trimming; otherwise it returns, in their
\* order, exactly the rows one of whose named columns, lower-cased, contains
\* the trimmed lower-cased value.
C16SearchFilterKeepsMatchingRows ==
  rowsAssigned =>
    \A i \in 1..Len(filters) :
      filters[i].kind = "search"
        => ApplyFilter(filters[i], rows, elements)
             = Ok(SearchKeeps(filters[i], rows, elements))

\* C16 holds where every row has the columns of the filter
C16SearchFilterOnCompleteRows ==
  rowsAssigned =>
    \A i \in 1..Len(filters) :
      (/\ filters[i].kind = "search"
       /\ \A k \in 1..Len(filters[i].columns) :
            HasColumn(rows, filters[i].columns[k]))
        => ApplyFilter(filters[i], rows, elements)
             = Ok(SearchKeeps(filters[i], rows, elements))

\* s is rs sorted stably on the column: s[i] is rs[p[i]] for a permutation p of
\* the positions, no row of s compares greater than a later one, and rows that
\* compare equal are in the order of their positions in rs
IsStableSort(s, rs, column) ==
  LET n == Len(rs)
      Compare(a, b) == LocaleCompare(Cell(a, column), Cell(b, column))
  IN  /\ Len(s) = n
      /\ \E p \in [1..n -> 1..n] :
           /\ \A i, j \in 1..n : p[i] = p[j] => i = j
           /\ \A i \in 1..n : s[i] = rs[p[i]]
           /\ \A i, j \in 1..n :
                i < j => /\ Compare(s[i], s[j]) <= 0
                         /\ Compare(s[i], s[j]) = 0 => p[i] < p[j]

\* C17: when the value of the sort select is the label of a sort option, the
\* sequence the getter hands to the render is a permutation of the filtered
\* rows in the order of that option's comparator, rows the comparator ranks
\* equal keeping the order they had in the filtered sequence.
C17SortIsStablePermutation ==
  (/\ rowsAssigned
   /\ sorting.set /\ ~SortLabelMissing
   /\ FilterLoop(filters, 1, rows, elements).err = "none")
  => \A r \in FilteredRowsOutcomes(rows, rowsAssigned, filters, sorting, elements) :
       /\ r.err = "none"
       /\ IsStableSort(
            r.val, FilterLoop(filters, 1, rows, elements).val,
            sorting.options[FindSortOption(
              sorting.options, Value(elements, sorting.element))].column)

\* C17 holds where every row has the column sorted on
C17SortOnCompleteRows ==
  (/\ rowsAssigned
   /\ sorting.set /\ ~SortLabelMissing
   /\ FilterLoop(filters, 1, rows, elements).err = "none"
   /\ HasColumn(rows, cD))
  => \A r \in FilteredRowsOutcomes(rows, rowsAssigned, filters, sorting, elements) :
       /\ r.err = "none"
       /\ IsStableSort(
            r.val, FilterLoop(filters, 1, rows, elements).val,
            sorting.options[FindSortOption(
              sorting.options, Value(elements, sorting.element))].column)

\* the labels of the sort options, in the order of registration
SortLabels == [i \in 1..Len(PageSortOptions) |-> PageSortOptions[i].label]

\* C18: setSortSelect appends one choice for every sort option to the select,
\* in the order of registration, and on a select that had no options the first
\* option becomes its value; the value then changes only when the user picks
\* another, so the render of the first data load sorts by the comparator of
\* the first option.
C18FirstSortOptionIsDefault ==
  /\ [][SetSortSelect("sortcol", PageSortOptions)
          => /\ elements'["sortcol"].options
                  = elements["sortcol"].options \o SortLabels
             /\ elements["sortcol"].options = <<>>
                  => Value(elements', "sortcol") = SortLabels[1]]_vars
  /\ [][Value(elements', "sortcol") # Value(elements, "sortcol")
          => \/ SetSortSelect("sortcol", PageSortOptions)
             \/ \E i \in 1..Len(elements["sortcol"].options) :
                  UserSelect("sortcol", i)]_vars
  /\ [][(/\ IsCallbackOk /\ ~rowsAssigned
         /\ sorting.set
         /\ elements["sortcol"].options = SortLabels
         /\ elements["sortcol"].selected = 1)
          => /\ FindSortOption(sorting.options, Value(elements', "sortcol")) = 1
             /\ thrown' = "none"
                  => LET f == LeftFold(filters, Len(filters), rows', elements')
                     IN  output' \in
                           { Concatenation(x.val) :
                               x \in {y \in SortOutcomes(
                                              f.val, PageSortOptions[1].column) :
                                        y.err = "none"} }]_vars

\* the first data load has been rendered on a sheet whose sort select had no
\* options of its own: the select is at the first option and the output shows
\* the rows in the order of its comparator, which is not the row store's
C18Witness ==
  /\ sorting.set
  /\ elements["sortcol"].options = SortLabels
  /\ elements["sortcol"].selected = 1
  /\ rowsAssigned /\ issued = 1 /\ inFlight = 0
  /\ thrown = "none"
  /\ filters = <<>>
  /\ output = Concatenation(StableSort(rows, PageSortOptions[1].column))
  /\ output # NewInner(rows)

\* rs sorted by the comparison functions of cmps, one after the other
RECURSIVE ApplyComparisons(_, _)
ApplyComparisons(cmps, rs) ==
  IF cmps = <<>> THEN rs
  ELSE ApplyComparisons(Tail(cmps), StableSort(rs, Labels[Head(cmps)]))

\* C19: the comparison functions placed in WebSheet.sortingComparisons are
\* applied to the filtered rows in the order of the array, and the sort chosen
\* in the sort select is applied to the result: a render that ends without
\* error shows the rows in that order.
C19SortingComparisonsApplied ==
  [][(/\ IsRender
      /\ sortingComparisons # Undefined
      /\ HasColumn(rows', cD)
      /\ thrown' = "none")
       => LET f == LeftFold(filters, Len(filters), rows', elements')
              first == ApplyComparisons(sortingComparisons, f.val)
              k == FindSortOption(sorting.options,
                                  Value(elements', sorting.element))
          IN  output' = Concatenation(
                          IF sorting.set
                          THEN StableSort(first, sorting.options[k].column)
                          ELSE first)]_vars

\* C20: in a successful fetch callback the row store is replaced first, then
\* the options of every bound input are rebuilt from the new rows and its
\* selection reconciled, then the render runs: the output of the refresh is
\* the concatenation over the new rows as filtered by the selections the
\* reconciliation left, and a step that does not get as far as the render
\* leaves the output as it was.
C20RefreshOrder ==
  [][\A cells \in Responses :
       CallbackOk(cells)
         => /\ rows' = HeaderFiltered(cells, Labels)
            /\ elements' = PopulateInputs(inputs, 1, rows', elements).els
            /\ thrown' = "none"
                 => output' \in
                      { Concatenation(rs) :
                          rs \in SortedFiltered(rows', filters, sorting,
                                                elements') }
            /\ thrown' # "none" => output' = output]_vars

\* a second refresh has completed with other rows than the first: a bound
\* select whose options it rebuilt is at 'Any', and the output shows all the
\* new rows
C20Witness ==
  /\ issued = 2 /\ inFlight = 0
  /\ thrown = "none"
  /\ rows = <<rAny, rBob, rCarl>>
  /\ \E k \in 1..Len(inputs) :
       /\ inputs[k].deliminator = Undefined
       /\ Value(elements, inputs[k].element) = sAny
       /\ elements[inputs[k].element].options = <<sAny, sAny, <<66>>>>
  /\ ~sorting.set
  /\ output = NewInner(rows)

\* C21: a change or input event of a control that fires before any fetch
\* callback has succeeded (no fetch made, a fetch in flight, or error callbacks
\* only) raises no error: the render runs over no rows and leaves the output
\* empty.
C21EventBeforeDataRendersNothing ==
  [][(IsControlEvent /\ ~rowsAssigned)
       => thrown' = "none" /\ output' = sEmpty]_vars

\* the value of the select of bound input inp is the value of one of its
\* options
ValueListed(inp, els) ==
  \E i \in 1..Len(els[inp.element].options) :
    els[inp.element].options[i] = Value(els, inp.element)

\* C22: once a fetch callback has succeeded, the value of every bound select
\* is the value of one of its own options, in every state, the user picking
\* only among the options.
C22SelectionIsListed ==
  rowsAssigned => \A k \in 1..Len(inputs) : ValueListed(inputs[k], elements)

\* C22 holds of the bound selects that have options: once populateInputs has
\* rebuilt a select, its value is always one of its options
C22SelectionIsListedOnceRebuilt ==
  \A k \in 1..Len(inputs) :
    Len(elements[inputs[k].element].options) > 0
      => ValueListed(inputs[k], elements)

\* a completed refresh has left a row store to which a select filter is bound
\* only afterwards
C22LateBinding ==
  /\ rowsAssigned /\ rows # <<>>
  /\ output = NewInner(rows)
  /\ filters # <<>>
  /\ \A i \in 1..Len(filters) : filters[i].kind = "select"
  /\ \A k \in 1..Len(inputs) : elements[inputs[k].element].options = <<>>

\* the rows of rs the select-column filter of bound input inp keeps when option
\* number i of its select is the one picked; none when the filter throws
KeptWith(inp, rs, els, i) ==
  LET r == ApplySelectFilter(
             SelectFilter(inp.element, inp.column, inp.deliminator), rs,
             [els EXCEPT ![inp.element].selected = i])
  IN  IF r.err # "none" THEN <<>> ELSE r.val

\* the options of the select of inp agree with its filter on rs: every option
\* but 'Any' keeps a row, and every row is kept by an option
OptionsAgree(inp, rs, els) ==
  LET n == Len(els[inp.element].options)
  IN  /\ \A i \in 1..n :
           els[inp.element].options[i] # sAny => KeptWith(inp, rs, els, i) # <<>>
      /\ \A j \in 1..Len(rs) :
           \E i \in 1..n :
             \E m \in 1..Len(KeptWith(inp, rs, els, i)) :
               KeptWith(inp, rs, els, i)[m] = rs[j]

\* C23: after a data refresh the option list of every bound input agrees with
\* the input's filter: picking any option offered other than 'Any' makes the
\* filter keep at least one row of the row store, and every row of the row
\* store is kept by the filter for at least one option offered.
C23OptionsAgreeWithFilter ==
  [][IsCallbackOk
       => \A k \in 1..Len(inputs) : OptionsAgree(inputs[k], rows', elements')]_vars

\* C23 holds of the refreshes whose rows all have the column
C23OptionsAgreeOnCompleteRows ==
  [][(IsCallbackOk /\ HasColumn(rows', cD))
       => \A k \in 1..Len(inputs) : OptionsAgree(inputs[k], rows', elements')]_vars

====
